---- MODULE Spec2Model ----
(***************************************************************************)
(* ReactiveAggregate (aggregate.js): one publication's debounce scheduler  *)
(* and snapshot differ, with the sink (sub.added / changed / removed /     *)
(* ready), the observers and the aggregation call as its environment.      *)
(***************************************************************************)
EXTENDS Integers, Sequences, FiniteSets, TLC

\* ------------------------------------------------------------------ bounds
\* options.debounceCount ranges over 0..MaxDebounceCount
MaxDebounceCount == 2

\* observer notifications delivered after setup
MaxSignals == 3

\* the observers deliver a notification only while fewer than MaxInFlight
\* aggregation calls are outstanding (a timer expiry can add one more)
MaxInFlight == 2

\* documents already in the observed cursors when observeChanges() is called
MaxSetupSignals == 1

\* records in one aggregation result
MaxDocs == 2

\* ---------------------------------------------------------------- identities
\* A document _id is a JavaScript value: its type is part of what the sink sees.
Num(s) == [t |-> "number", v |-> s]
Str(s) == [t |-> "string", v |-> s]

\* The _id values the aggregation returns in this model: 1 and "a".
Ids == {Num("1"), Str("a")}

\* Property-key coercion of sub._ids[doc._id]: the key of 1 is "1", of "a" is "a".
ToKey(id) == id.v

\* doc._id of a record that has no _id field
Undef == [t |-> "undefined", v |-> "undefined"]

\* Object.keys(sub._ids) lists integer-like keys in ascending numeric order,
\* then the other keys in insertion order. No behaviour here holds both "a" and
\* "undefined" in the map, so one fixed order covers every map.
KeyOrder == <<"1", "a", "undefined">>

\* the other fields of a record, as one value
Vals == {10}

\* the records of an aggregation result: each has an _id
Docs == [_id : Ids, v : Vals]

\* the sequences over S of length at most n
RECURSIVE SeqsUpTo(_, _)
SeqsUpTo(S, n) ==
  IF n = 0 THEN {<<>>}
  ELSE LET shorter == SeqsUpTo(S, n - 1)
       IN  shorter \cup {Append(s, x) : s \in {q \in shorter : Len(q) = n - 1}, x \in S}

\* What collection.rawCollection().aggregate(...).toArray() can resolve to.
Snapshots == SeqsUpTo(Docs, MaxDocs)

\* records of a result in which the _id field may be missing
NoIdDocs == [_id : {Num("1"), Undef}, v : Vals]

\* aggregation results whose records need not carry an _id
NoIdSnapshots == SeqsUpTo(NoIdDocs, MaxDocs)

\* the records that come before a null element in a result of at most MaxDocs elements
RecordsBeforeNull == SeqsUpTo(Docs, MaxDocs - 1)

\* ------------------------------------------------------------------- state
VARIABLES
  debounceCount,         \* localOptions.debounceCount
  docsPropName,          \* localOptions.docsPropName is set
  initializing,          \* let initializing
  ids,                   \* sub._ids: property key -> iteration stamp
  iteration,             \* sub._iteration
  currentDebounceCount,  \* let currentDebounceCount
  timer,                 \* let timer: "unset" (undefined) or a handle that is armed, fired or cleared
  pending,               \* update() calls suspended on await aggregate(): their call numbers
  nUpdates,              \* update() calls that have reached the aggregation call
  stopped,               \* the onStop hook has run (every handle stopped)
  setupSignals,          \* initial added notifications observeChanges() has still to fire
  nSignals,              \* notifications delivered after setup
  readyCalled,           \* sink: sub.ready() was called
  sinkDocs,              \* sink: identities added and not removed since
  calls,                 \* sink: the added/changed/removed calls of the last step
  lastOp,                \* the last step taken
  lastDocs,              \* the snapshot the last step diffed, if it was a completed recompute
  inFlightAtStop,        \* the update() calls that were suspended when the stop hook ran
  unserved,              \* a signal arrived and no update() has started at or after it
  burst                  \* for the latest signals with no timer expiry between: did each call update()

vars == <<debounceCount, docsPropName, initializing, ids, iteration,
          currentDebounceCount, timer, pending, nUpdates, stopped, setupSignals,
          nSignals, readyCalled, sinkDocs, calls, lastOp, lastDocs, inFlightAtStop,
          unserved, burst>>

\* the options, fixed at construction
config == <<debounceCount, docsPropName>>

\* the debounce scheduler's own state
sched == <<currentDebounceCount, timer>>

EmptyMap == [k \in {} |-> 0]

Init ==
  /\ debounceCount \in 0..MaxDebounceCount
  /\ docsPropName \in BOOLEAN
  /\ initializing = TRUE
  /\ ids = EmptyMap
  /\ iteration = 1
  /\ currentDebounceCount = 0
  /\ timer = "unset"
  /\ pending = {}
  /\ nUpdates = 0
  /\ stopped = FALSE
  /\ setupSignals \in 0..MaxSetupSignals
  /\ nSignals = 0
  /\ readyCalled = FALSE
  /\ sinkDocs = {}
  /\ calls = <<>>
  /\ lastOp = "init"
  /\ lastDocs = <<>>
  /\ inFlightAtStop = {}
  /\ unserved = FALSE
  /\ burst = <<>>

\* ------------------------------------------------------------ snapshot differ
\* a sink call: the target collection, the operation, the id and the record passed
Call(coll, op, id, v) == [coll |-> coll, op |-> op, id |-> id, v |-> v]

\* sub._subscriptionId
SubId == Str("sub")

\* the extras singleton: initializingExtras is a local of update(), true on every pass
ExtrasCall == Call("extras", "added", SubId, 0)

\* !sub._ids[doc._id]
Absent(map, id) == ToKey(id) \notin DOMAIN map \/ map[ToKey(id)] = 0

\* every record announced as new, whatever the map holds
DocCallAlwaysAdded(map, doc) == Call("client", "added", doc._id, doc.v)

\* docs.forEach body: the sink call made for one record
DocCall(map, doc) ==
  IF Absent(map, doc._id) THEN Call("client", "added", doc._id, doc.v)
  ELSE Call("client", "changed", doc._id, doc.v)

\* sub._ids[doc._id] = sub._iteration
Stamp(map, id, it) ==
  [k \in DOMAIN map \cup {ToKey(id)} |-> IF k = ToKey(id) THEN it ELSE map[k]]

\* docs.forEach(...): the map and the calls after the records, in snapshot order
RECURSIVE ApplyDocs(_, _, _, _)
ApplyDocs(docs, map, it, out) ==
  IF docs = <<>> THEN [map |-> map, out |-> out]
  ELSE ApplyDocs(Tail(docs), Stamp(map, Head(docs)._id, it), it,
                 Append(out, DocCall(map, Head(docs))))

\* Object.keys(sub._ids)
ObjectKeys(map) == SelectSeq(KeyOrder, LAMBDA k : k \in DOMAIN map)

\* the keys whose stamp is not the current iteration, in Object.keys order
StaleKeys(map, it) == SelectSeq(ObjectKeys(map), LAMBDA k : map[k] # it)

\* delete sub._ids[id] for every stale key
DropStale(map, it) == [k \in {x \in DOMAIN map : map[x] = it} |-> map[k]]

\* sub.removed(clientCollection, id): id is the property key, a string
RECURSIVE RemovedCalls(_)
RemovedCalls(keys) ==
  IF keys = <<>> THEN <<>>
  ELSE <<Call("client", "removed", Str(Head(keys)), 0)>> \o RemovedCalls(Tail(keys))

\* a pass that removes the stale keys before it announces the records
DiffRemovesFirst(docs, map, it, named) ==
  LET a == ApplyDocs(docs, map, it, <<>>)
  IN  [map |-> DropStale(a.map, it),
       out |-> (IF named THEN <<ExtrasCall>> ELSE <<>>)
                 \o RemovedCalls(StaleKeys(a.map, it)) \o a.out]

\* One successful pass of update() over a snapshot: the extras call when
\* docsPropName is set, the records in order, then the stale keys.
Diff(docs, map, it, named) ==
  LET a == ApplyDocs(docs, map, it, IF named THEN <<ExtrasCall>> ELSE <<>>)
  IN  [map |-> DropStale(a.map, it),
       out |-> a.out \o RemovedCalls(StaleKeys(a.map, it))]

\* The sink's view: identities it was told were added and not removed since.
RECURSIVE SinkApply(_, _)
SinkApply(S, cs) ==
  IF cs = <<>> THEN S
  ELSE LET c == Head(cs)
       IN  SinkApply(IF c.coll = "client" /\ c.op = "added" THEN S \cup {c.id}
                     ELSE IF c.coll = "client" /\ c.op = "removed" THEN S \ {c.id}
                     ELSE S,
                     Tail(cs))

\* ------------------------------------------------------------------ actions
\* update() up to its await: the aggregation call is issued.
StartUpdate ==
  /\ nUpdates' = nUpdates + 1
  /\ pending' = pending \cup {nUpdates + 1}
  /\ unserved' = FALSE

\* a notification during setup that debounce() counts instead of ignoring
SetupSignalCounted ==
  /\ initializing
  /\ setupSignals > 0
  /\ setupSignals' = setupSignals - 1
  /\ currentDebounceCount' = currentDebounceCount + 1
  /\ calls' = <<>>
  /\ lastDocs' = <<>>
  /\ lastOp' = "setupSignal"
  /\ UNCHANGED <<config, timer, initializing, ids, iteration, pending, nUpdates, stopped,
                 nSignals, readyCalled, sinkDocs, inFlightAtStop, unserved, burst>>

\* observeChanges() fires added for a document already in the cursor: debounce()
\* is called while initializing and returns at once.
SetupSignal ==
  /\ initializing
  /\ setupSignals > 0
  /\ setupSignals' = setupSignals - 1
  /\ calls' = <<>>
  /\ lastDocs' = <<>>
  /\ lastOp' = "setupSignal"
  /\ UNCHANGED <<config, sched, initializing, ids, iteration, pending, nUpdates, stopped,
                 nSignals, readyCalled, sinkDocs, inFlightAtStop, unserved, burst>>

\* every observer is wired: initializing = false; update(); sub.ready(); sub.onStop(...)
EndSetup ==
  /\ initializing
  /\ setupSignals = 0
  /\ initializing' = FALSE
  /\ StartUpdate
  /\ readyCalled' = TRUE
  /\ calls' = <<>>
  /\ lastDocs' = <<>>
  /\ lastOp' = "endSetup"
  /\ UNCHANGED <<config, sched, ids, iteration, stopped, setupSignals, nSignals, sinkDocs,
                 inFlightAtStop, burst>>

\* the signals of the current burst, the newest last, at most `n` of them
Window(b, n) == IF Len(b) > n THEN SubSeq(b, Len(b) - n + 1, Len(b)) ELSE b

\* the count test made against 0 instead of the configured debounceCount
ExceedsZero == currentDebounceCount + 1 > 0

\* ++currentDebounceCount > localOptions.debounceCount
Exceeds == currentDebounceCount + 1 > debounceCount

\* a clearTimeout that leaves the timer pending
NoClear(t) == t

\* Meteor.clearTimeout(timer): a pending timer is cancelled; undefined, an expired
\* or an already cancelled handle are left as they are
AfterClear(t) == IF t = "armed" THEN "cleared" ELSE t

\* debounce() called by an observer after setup
Signal ==
  /\ ~initializing
  /\ ~stopped
  /\ nSignals < MaxSignals
  /\ Cardinality(pending) < MaxInFlight
  /\ nSignals' = nSignals + 1
  /\ LET armed == IF timer = "unset" /\ debounceCount > 0 THEN "armed" ELSE timer
     IN  IF Exceeds
           THEN /\ currentDebounceCount' = 0
                /\ timer' = AfterClear(armed)
                /\ StartUpdate
                /\ burst' = Window(Append(burst, TRUE), debounceCount)
           ELSE /\ currentDebounceCount' = currentDebounceCount + 1
                /\ timer' = armed
                /\ UNCHANGED <<pending, nUpdates>>
                /\ unserved' = TRUE
                /\ burst' = Window(Append(burst, FALSE), debounceCount)
  /\ calls' = <<>>
  /\ lastDocs' = <<>>
  /\ lastOp' = "signal"
  /\ UNCHANGED <<config, initializing, ids, iteration, stopped, setupSignals, readyCalled,
                 sinkDocs, inFlightAtStop>>

\* Meteor.setTimeout(update, debounceDelay) expires: update() runs
TimerFire ==
  /\ timer = "armed"
  /\ timer' = "fired"
  /\ StartUpdate
  /\ burst' = <<>>
  /\ calls' = <<>>
  /\ lastDocs' = <<>>
  /\ lastOp' = "timer"
  /\ UNCHANGED <<config, initializing, ids, iteration, currentDebounceCount, stopped,
                 setupSignals, nSignals, readyCalled, sinkDocs, inFlightAtStop>>

\* the aggregation call of update() number n rejects, with the map cleared by mistake
ResumeFailClearsIds(n) ==
  /\ n \in pending
  /\ pending' = pending \ {n}
  /\ ids' = EmptyMap
  /\ calls' = <<>>
  /\ lastDocs' = <<>>
  /\ lastOp' = "resumeFail"
  /\ UNCHANGED <<config, sched, initializing, iteration, nUpdates, stopped, setupSignals,
                 nSignals, readyCalled, sinkDocs, inFlightAtStop, unserved, burst>>

\* the aggregation call of update() number n rejects: catch, rethrow
ResumeFail(n) ==
  /\ n \in pending
  /\ pending' = pending \ {n}
  /\ calls' = <<>>
  /\ lastDocs' = <<>>
  /\ lastOp' = "resumeFail"
  /\ UNCHANGED <<config, sched, initializing, ids, iteration, nUpdates, stopped, setupSignals,
                 nSignals, readyCalled, sinkDocs, inFlightAtStop, unserved, burst>>

\* docsPropName is set and the aggregation call of update() number n resolves with
\* no record: aggregationResult[0][docsPropName] throws, catch, rethrow
ResumeNoRecord(n) ==
  /\ docsPropName
  /\ n \in pending
  /\ pending' = pending \ {n}
  /\ calls' = <<>>
  /\ lastDocs' = <<>>
  /\ lastOp' = "resumeNoRecord"
  /\ UNCHANGED <<config, sched, initializing, ids, iteration, nUpdates, stopped, setupSignals,
                 nSignals, readyCalled, sinkDocs, inFlightAtStop, unserved, burst>>

\* docsPropName is set and the first record of the result has no such field: the
\* extras are published, then docs.forEach throws on undefined, catch, rethrow
ResumeNoDocsField(n) ==
  /\ docsPropName
  /\ n \in pending
  /\ pending' = pending \ {n}
  /\ calls' = <<ExtrasCall>>
  /\ lastDocs' = <<>>
  /\ lastOp' = "resumeNoDocsField"
  /\ UNCHANGED <<config, sched, initializing, ids, iteration, nUpdates, stopped, setupSignals,
                 nSignals, readyCalled, sinkDocs, inFlightAtStop, unserved, burst>>

\* the aggregation call of update() number n resolves with the records docs (under
\* docsPropName when it is set): diff into the sink
ResumeOk(n, docs) ==
  /\ n \in pending
  /\ pending' = pending \ {n}
  /\ LET d == Diff(docs, ids, iteration, docsPropName)
     IN  /\ ids' = d.map
         /\ calls' = d.out
         /\ sinkDocs' = SinkApply(sinkDocs, d.out)
  /\ iteration' = iteration + 1
  /\ lastOp' = "resumeOk"
  /\ lastDocs' = docs
  /\ UNCHANGED <<config, sched, initializing, nUpdates, stopped, setupSignals, nSignals,
                 readyCalled, inFlightAtStop, unserved, burst>>

\* docsPropName is set and the named array of update() number n holds the records
\* docs followed by a null element: the extras and the records before the null are
\* published and stamped, then doc._id throws inside docs.forEach, catch, rethrow;
\* the removal loop and sub._iteration++ are not reached
ResumeNullRecord(n, docs) ==
  /\ docsPropName
  /\ n \in pending
  /\ pending' = pending \ {n}
  /\ LET a == ApplyDocs(docs, ids, iteration, <<ExtrasCall>>)
     IN  /\ ids' = a.map
         /\ calls' = a.out
         /\ sinkDocs' = SinkApply(sinkDocs, a.out)
  /\ lastDocs' = <<>>
  /\ lastOp' = "resumeNullRecord"
  /\ UNCHANGED <<config, sched, initializing, iteration, nUpdates, stopped, setupSignals,
                 nSignals, readyCalled, inFlightAtStop, unserved, burst>>

\* the client unsubscribes: the onStop hook stops every observer handle
Stop ==
  /\ ~initializing
  /\ ~stopped
  /\ stopped' = TRUE
  /\ inFlightAtStop' = pending
  /\ calls' = <<>>
  /\ lastDocs' = <<>>
  /\ lastOp' = "stop"
  /\ UNCHANGED <<config, sched, initializing, ids, iteration, pending, nUpdates, setupSignals,
                 nSignals, readyCalled, sinkDocs, unserved, burst>>

Next ==
  \/ SetupSignal
  \/ EndSetup
  \/ Signal
  \/ TimerFire
  \/ \E n \in pending : ResumeFail(n)
  \/ \E n \in pending : ResumeNoRecord(n)
  \/ \E n \in pending : ResumeNoDocsField(n)
  \/ \E n \in pending, docs \in Snapshots : ResumeOk(n, docs)
  \/ Stop

Spec == Init /\ [][Next]_vars

\* Armed timers expire and pending aggregation calls settle.
FairSpec ==
  /\ Spec
  /\ WF_vars(TimerFire)
  /\ WF_vars(\E n \in pending :
               \/ ResumeFail(n)
               \/ ResumeNoRecord(n)
               \/ ResumeNoDocsField(n)
               \/ \E docs \in Snapshots : ResumeOk(n, docs))

\* The same publication over a pipeline whose records may lack the _id field.
NextNoId ==
  \/ SetupSignal
  \/ EndSetup
  \/ Signal
  \/ TimerFire
  \/ \E n \in pending : ResumeFail(n)
  \/ \E n \in pending : ResumeNoRecord(n)
  \/ \E n \in pending : ResumeNoDocsField(n)
  \/ \E n \in pending, docs \in NoIdSnapshots : ResumeOk(n, docs)
  \/ Stop

SpecNoId == Init /\ [][NextNoId]_vars

\* The same publication over a pipeline whose named array may hold a null element.
NextNullRecord ==
  \/ Next
  \/ \E n \in pending, docs \in RecordsBeforeNull : ResumeNullRecord(n, docs)

SpecNullRecord == Init /\ [][NextNullRecord]_vars

\* ------------------------------------------------------------------- claims
SnapshotIds(docs) == {docs[i]._id : i \in 1..Len(docs)}

\* the sink's view before call number i of the sequence cs, starting from S
SinkBefore(S, cs, i) == SinkApply(S, SubSeq(cs, 1, i - 1))

\* C1: after every completed recompute the identities the sink holds (added and
\* not removed since) are exactly the identities of the snapshot just processed,
\* and the keys of sub._ids are the keys of those identities.
C1_Convergence ==
  lastOp = "resumeOk" =>
    /\ sinkDocs = SnapshotIds(lastDocs)
    /\ DOMAIN ids = {ToKey(i) : i \in SnapshotIds(lastDocs)}

\* C2: the sink never receives added for an identity it already holds, i.e. twice
\* without a removed for that same identity in between.
C2_NoDuplicateAdds ==
  [][\A i \in 1..Len(calls') :
       (calls'[i].coll = "client" /\ calls'[i].op = "added")
         => calls'[i].id \notin SinkBefore(sinkDocs, calls', i)]_vars

\* C3: the sink receives removed(identity) only for an identity it holds: added
\* before and not removed since.
C3_NoOrphanRemoves ==
  [][\A i \in 1..Len(calls') :
       (calls'[i].coll = "client" /\ calls'[i].op = "removed")
         => calls'[i].id \in SinkBefore(sinkDocs, calls', i)]_vars

\* a step in which a suspended update() is resumed by a rejected aggregation call
FailedRecompute == lastOp' = "resumeFail" /\ pending' # pending

\* C4: a recompute whose aggregation call fails makes no sink call and leaves
\* sub._ids and the published identity set as they were; the subscription stays
\* alive: the failure neither stops it nor touches the debounce state, and a
\* signal right after it that brings the counter above debounceCount starts a
\* recompute.
C4_FailureIsolation ==
  [][/\ FailedRecompute =>
          /\ calls' = <<>>
          /\ ids' = ids
          /\ sinkDocs' = sinkDocs
          /\ stopped' = stopped
          /\ <<currentDebounceCount, timer>>' = <<currentDebounceCount, timer>>
     /\ (lastOp = "resumeFail" /\ nSignals' = nSignals + 1
           /\ currentDebounceCount + 1 > debounceCount) =>
          /\ nUpdates' = nUpdates + 1
          /\ nUpdates + 1 \in pending']_vars

\* C4 witness: a recompute has just failed against a non-empty published map.
C4_Witness ==
  /\ lastOp = "resumeFail"
  /\ DOMAIN ids # {}
  /\ sinkDocs # {}
  /\ ~stopped

\* C5: ready() is called only after the initial recompute (update() number 1) has
\* completed, so none of its sink calls comes after ready().
C5_ReadyAfterInitialSnapshot == readyCalled => (nUpdates >= 1 /\ 1 \notin pending)

\* C6: at most one recompute is suspended on the aggregation call at any time.
C6_SingleFlight == Cardinality(pending) <= 1

\* C7: a signal received after setup is eventually followed by the start of a
\* recompute (or the subscription is stopped first).
C7_SignalsNeverDropped == unserved ~> (~unserved \/ stopped)

\* the number of signals of the sequence b that called update()
RECURSIVE Triggers(_)
Triggers(b) == IF b = <<>> THEN 0 ELSE (IF Head(b) THEN 1 ELSE 0) + Triggers(Tail(b))

\* C8: with debounceCount = N >= 1, among any N consecutive signals with no
\* timer expiry between them at most one triggers a recompute.
C8_DebounceBound == debounceCount >= 1 => Triggers(burst) <= 1

\* C8 witness: debounceCount = 2 and the second of two consecutive signals
\* triggered a recompute by count.
C8_Witness == debounceCount = 2 /\ burst = <<FALSE, TRUE>> /\ lastOp = "signal"

\* C9: once the stop hook has run no recompute starts and no sink call is made.
C9_StopEndsRecomputation ==
  [][stopped => (nUpdates' = nUpdates /\ calls' = <<>>)]_vars

\* C10: a recompute that was suspended on the aggregation call when the stop
\* hook ran makes no sink call when the call returns.
C10_StopDiscardsInFlight ==
  [][(\E n \in inFlightAtStop : n \in pending /\ n \notin pending') => calls' = <<>>]_vars

\* a step in which a suspended update() runs to its end over a snapshot
CompletedRecompute == lastOp' = "resumeOk" /\ pending' # pending

\* C11: with docsPropName set, the extras record goes to the extras target as
\* added on the first successful recompute (sub._iteration still 1) and as
\* changed on every later successful recompute.
C11_ExtrasSingleton ==
  [][(docsPropName /\ CompletedRecompute) =>
       /\ Len(calls') >= 1
       /\ calls'[1].coll = "extras"
       /\ calls'[1].id = SubId
       /\ calls'[1].op = (IF iteration = 1 THEN "added" ELSE "changed")]_vars

\* the snapshot has a record without the _id field
LacksId(docs) == \E i \in 1..Len(docs) : docs[i]._id = Undef

\* C12: a recompute whose snapshot has a record without _id makes no added,
\* changed or removed call for the records and leaves sub._ids as it was.
C12_MissingIdentityAborts ==
  [][(CompletedRecompute /\ LacksId(lastDocs')) =>
       /\ \A i \in 1..Len(calls') : calls'[i].coll # "client"
       /\ ids' = ids]_vars

\* calls made before the first record of a snapshot: the extras call, if any
Offset == IF docsPropName THEN 1 ELSE 0

\* C13: in a completed recompute every snapshot record whose key was already in
\* sub._ids is passed to the sink as changed(id, record), with its id and its
\* whole record, also when the record equals the one published before.
C13_FullReplace ==
  [][CompletedRecompute =>
       \A i \in 1..Len(lastDocs') :
         ToKey(lastDocs'[i]._id) \in DOMAIN ids =>
           /\ Len(calls') >= Offset + i
           /\ calls'[Offset + i] =
                Call("client", "changed", lastDocs'[i]._id, lastDocs'[i].v)]_vars

\* a completed recompute has just passed an already published record as changed
C13_Witness ==
  /\ lastOp = "resumeOk"
  /\ lastDocs # <<>>
  /\ calls[Offset + 1] = Call("client", "changed", lastDocs[1]._id, lastDocs[1].v)
  /\ iteration > 2

\* a step in which the debounce timer expires
TimerExpiry == lastOp' = "timer" /\ timer = "armed" /\ timer' = "fired"

\* a step in which an observer notification is delivered after setup
PostSetupSignal == lastOp' = "signal" /\ nSignals' = nSignals + 1

\* C14: a timer expiry starts one recompute and leaves the counter at 0; and a
\* signal that arrives with debounceCount > 0 after the timer expired or was
\* cancelled, and does not itself exceed the count, leaves a fresh timer armed.
C14_ExpiryClearsDebounceState ==
  [][/\ TimerExpiry =>
          /\ nUpdates' = nUpdates + 1
          /\ currentDebounceCount' = 0
     /\ (PostSetupSignal /\ debounceCount > 0 /\ timer \in {"fired", "cleared"} /\ ~Exceeds) =>
          timer' = "armed"]_vars

\* C15: every post-setup signal adds one to the counter; exactly when the new
\* count exceeds debounceCount the counter goes back to 0, no timer is left
\* pending and one update() starts in the same step, otherwise none starts; a
\* cancelled timer stays cancelled and starts no update(); with debounceCount 0
\* no timer is ever armed.
C15_CountThreshold ==
  [][/\ PostSetupSignal =>
          IF currentDebounceCount + 1 > debounceCount
            THEN /\ currentDebounceCount' = 0
                 /\ timer' # "armed"
                 /\ nUpdates' = nUpdates + 1
                 /\ pending' = pending \cup {nUpdates + 1}
            ELSE /\ currentDebounceCount' = currentDebounceCount + 1
                 /\ nUpdates' = nUpdates
                 /\ pending' = pending
     /\ timer = "cleared" =>
          /\ timer' = "cleared"
          /\ nUpdates' # nUpdates => PostSetupSignal
     /\ debounceCount = 0 => timer' = "unset"]_vars

\* a signal has just exceeded the count while the timer was pending
C15_Witness ==
  /\ lastOp = "signal"
  /\ debounceCount >= 1
  /\ timer = "cleared"
  /\ currentDebounceCount = 0
  /\ nSignals = debounceCount + 1

\* C16: while initializing the counter is 0, no timer is armed and no update()
\* has started; a notification delivered during setup changes none of this and
\* makes no sink call; the step that ends setup starts update() number 1 and
\* only that one.
C16_SetupSignalsIgnored ==
  [][/\ initializing' =>
          /\ currentDebounceCount' = 0
          /\ timer' = "unset"
          /\ nUpdates' = 0
          /\ pending' = {}
          /\ calls' = <<>>
          /\ ids' = EmptyMap
     /\ (initializing /\ ~initializing') =>
          /\ nUpdates' = 1
          /\ pending' = {1}
          /\ currentDebounceCount' = 0
          /\ timer' = "unset"]_vars

\* a notification has just been delivered during setup, the last one before it ends
C16_Witness ==
  /\ lastOp = "setupSignal"
  /\ initializing
  /\ setupSignals = 0
  /\ nUpdates = 0

\* C17: after a completed recompute the calls for the client collection are one
\* added or changed per snapshot record, in snapshot order and with that
\* record's id, followed only by removed calls.
C17_EventOrder ==
  lastOp = "resumeOk" =>
    /\ Len(calls) >= Offset + Len(lastDocs)
    /\ \A i \in 1..Len(lastDocs) :
         /\ calls[Offset + i].coll = "client"
         /\ calls[Offset + i].op \in {"added", "changed"}
         /\ calls[Offset + i].id = lastDocs[i]._id
         /\ calls[Offset + i].v = lastDocs[i].v
    /\ \A j \in (Offset + Len(lastDocs) + 1)..Len(calls) :
         /\ calls[j].coll = "client"
         /\ calls[j].op = "removed"

\* a recompute over two records has just removed a stale key as well
C17_Witness ==
  /\ lastOp = "resumeOk"
  /\ Len(lastDocs) = 2
  /\ Len(calls) > Offset + 2
  /\ calls[Len(calls)].op = "removed"

\* the property keys of a snapshot's records
SnapshotKeys(docs) == {ToKey(docs[i]._id) : i \in 1..Len(docs)}

\* the positions of the removed calls for key k in the calls cs
RemovedAt(cs, k) == {j \in 1..Len(cs) : cs[j].op = "removed" /\ cs[j].id = Str(k)}

\* C18: in a completed recompute every key that was in sub._ids before it and is
\* not the key of a snapshot record gets exactly one removed call and is deleted
\* from the map, no key of a snapshot record is removed, and no stamp stored in
\* the map before the recompute equals the iteration it stamps with; also when
\* an earlier recompute failed.
C18_ExactlyOnceRemoval ==
  [][CompletedRecompute =>
       /\ \A k \in DOMAIN ids \ SnapshotKeys(lastDocs') :
            /\ Cardinality(RemovedAt(calls', k)) = 1
            /\ k \notin DOMAIN ids'
       /\ \A k \in SnapshotKeys(lastDocs') :
            /\ RemovedAt(calls', k) = {}
            /\ k \in DOMAIN ids'
       /\ \A k \in DOMAIN ids : ids[k] # iteration]_vars

\* a step in which a suspended update() is resumed, with docsPropName set, by a
\* result that has no first record or whose first record lacks the named field
UnexpectedShape ==
  /\ lastOp' \in {"resumeNoRecord", "resumeNoDocsField"}
  /\ pending' # pending

\* C19: a recompute whose result has an unexpected shape makes no sink call, not
\* even for the extras record, and leaves sub._ids as it was.
C19_UnexpectedShape ==
  [][UnexpectedShape => (calls' = <<>> /\ ids' = ids /\ iteration' = iteration)]_vars

\* the update() calls that have left their await
Settled == (1..nUpdates) \ pending

\* every update() that has left its await ran to the end of its pass:
\* sub._iteration has been incremented once for each
AllSettledDiffed == Cardinality(Settled) = iteration - 1

\* C20: snapshots are diffed in the order their recomputes were triggered: while
\* no recompute has failed, the recompute whose snapshot is diffed in a step was
\* triggered after every recompute diffed before it, so when none is left
\* pending the last snapshot diffed is that of the recompute triggered last.
C20_TriggerOrder ==
  [][(CompletedRecompute /\ AllSettledDiffed) =>
       \A n \in pending \ pending' : \A m \in Settled : m < n]_vars

====
